---- MODULE Spec2Model ----
(***************************************************************************)
(* A state-machine model of the SpatialHash culling index of pixi-cull     *)
(* (src/unnamed/part_002): the bucket map, the two registries, the         *)
(* per-object spatial state, and the display objects and containers the    *)
(* index reads and writes.                                                 *)
(***************************************************************************)
EXTENDS Integers, Sequences, FiniteSets, TLC

\* ------------------------------------------------------------- bounds ----
NumObjects == 2        \* display objects that exist in the scene
NumContainers == 1     \* containers that exist in the scene
MaxElements == 1       \* cap on the length of this.elements
MaxContainers == 1     \* cap on the length of this.containers
MaxBucket == 2         \* cap on the length of one bucket

Objects == 1..NumObjects
Containers == 1..NumContainers

\* ------------------------------------------------------------- inputs ----
\* cell sizes the index is constructed with (options.size)
CellSizes == {10}
\* SpatialHashDefaultOptions
SpatialHashDefaultOptions ==
    [xSize |-> 1000, ySize |-> 1000, simpleTest |-> TRUE, dirtyTest |-> TRUE]
\* option objects handed to the constructor; a record holds the properties
\* the caller set, and the first entry stands for `new SpatialHash()`.
\* (xSize: 0 or ySize: 0 is left out: it makes every cell coordinate
\* Infinity or NaN.)
ConstructorOptions ==
    << [simpleTest |-> TRUE],
       [size |-> 0],
       [size |-> -10],
       [xSize |-> -10, ySize |-> 10],
       [size |-> 10, dirtyTest |-> FALSE] >>
\* the entry of ConstructorOptions that sets no cell dimension and no toggle
\* differently from `new SpatialHash()`
NoOptions == 1
\* what object.getLocalBounds() returns, and object.pivot
LocalBounds == [x |-> 0, y |-> 0, width |-> 4, height |-> 4]
Pivot == [x |-> 0, y |-> 0]
\* transforms the owner of an object gives it
Transforms ==
    { [x |-> 0, y |-> 0, scale |-> 1],      \* cell (0,0)
      [x |-> 8, y |-> 8, scale |-> 1] }     \* cells (0,0), (1,0), (0,1), (1,1)
\* the same, and a move that stays inside cell (0,0)
NearTransforms == Transforms \cup { [x |-> 2, y |-> 2, scale |-> 1] }
\* transforms that put an object in one cell of each row and of each column of
\* the range of the widest query rectangle
WideTransforms ==
    { [x |-> 12, y |-> 0, scale |-> 1],     \* cell (1,0)
      [x |-> 0, y |-> 12, scale |-> 1],     \* cell (0,1)
      [x |-> 8, y |-> 8, scale |-> 1] }     \* cells (0,0), (1,0), (0,1), (1,1)
\* query rectangles over one cell and over every cell of the grid
WideRects ==
    { [x |-> 11, y |-> 0, width |-> 8, height |-> 6],
      [x |-> 0, y |-> 0, width |-> 20, height |-> 20] }
\* transforms that put an object at the origin, or left of and above it
FarTransforms ==
    { [x |-> 0, y |-> 0, scale |-> 1],          \* cell (0,0)
      [x |-> -15, y |-> -15, scale |-> 1] }     \* cell (-2,-2)
\* query rectangles handed to cull
Rects ==
    { [x |-> 0, y |-> 0, width |-> 6, height |-> 6],
      [x |-> 11, y |-> 0, width |-> 8, height |-> 6],
      [x |-> 0, y |-> 0, width |-> 20, height |-> 20] }
\* query rectangles that share an edge or a corner with the box of an object
\* at (0,0) or at (8,8)
EdgeRects ==
    { [x |-> 4, y |-> 0, width |-> 6, height |-> 6],
      [x |-> 0, y |-> 4, width |-> 6, height |-> 6],
      [x |-> 0, y |-> 0, width |-> 8, height |-> 8] }

VARIABLES
    xSize, ySize,      \* this.xSize, this.ySize
    simpleTest,        \* this.simpleTest
    dirtyTest,         \* this.dirtyTest
    hash,              \* this.hash: cell key -> bucket (a list of objects)
    containers,        \* this.containers
    elements,          \* this.elements
    lastBuckets,       \* this.lastBuckets
    objects,           \* the fields of every display object
    children,          \* container.children
    cull,              \* container.cull (the ContainerCullObject, if any)
    listeners,         \* the index's handlers subscribed on each container
    history            \* what the claims need of the past (not program state)

vars == << xSize, ySize, simpleTest, dirtyTest, hash, containers, elements,
           lastBuckets, objects, children, cull, listeners, history >>

config == << xSize, ySize, simpleTest, dirtyTest >>

\* ------------------------------------------------------------ helpers ----
\* object.spatial = { hashes: [] }: no cached range yet
NewSpatial ==
    [def |-> TRUE, hashes |-> << >>, cached |-> FALSE,
     xStart |-> 0, yStart |-> 0, xEnd |-> 0, yEnd |-> 0]

\* an object the index has never touched: no spatial, no AABB
NoSpatial == [NewSpatial EXCEPT !.def = FALSE]
NoAABB == [def |-> FALSE, x |-> 0, y |-> 0, width |-> 0, height |-> 0]

\* Array.prototype.indexOf, 1-based; 0 when absent (JavaScript's -1)
IndexOf(list, e) ==
    IF \E i \in 1..Len(list) : list[i] = e
    THEN CHOOSE i \in 1..Len(list) :
            list[i] = e /\ \A j \in 1..(i - 1) : list[j] # e
    ELSE 0

RemoveAt(list, i) ==
    [j \in 1..(Len(list) - 1) |-> IF j < i THEN list[j] ELSE list[j + 1]]

\* list.splice(list.indexOf(e), 1): an index of -1 counts from the end of
\* the list, so an absent e removes the LAST entry (none of an empty list)
SpliceIndexOf(list, e) ==
    IF Len(list) = 0 THEN list
    ELSE IF IndexOf(list, e) = 0 THEN RemoveAt(list, Len(list))
    ELSE RemoveAt(list, IndexOf(list, e))

\* the key `${x},${y}` of a cell
Key(cx, cy) == << cx, cy >>

\* the keys of a cell range with the loops exchanged: x outer, y inner
RangeKeysColumnMajor(b) ==
    LET w == b.xEnd - b.xStart + 1
        h == b.yEnd - b.yStart + 1
    IN  IF w <= 0 \/ h <= 0 THEN << >>
        ELSE [i \in 1..(w * h) |->
                Key(b.xStart + ((i - 1) \div h), b.yStart + ((i - 1) % h))]

\* the keys of a cell range in the order of the nested loops: y outer, x inner
RangeKeys(b) ==
    LET w == b.xEnd - b.xStart + 1
        h == b.yEnd - b.yStart + 1
    IN  IF w <= 0 \/ h <= 0 THEN << >>
        ELSE [i \in 1..(w * h) |->
                Key(b.xStart + ((i - 1) % w), b.yStart + ((i - 1) \div w))]

\* Math.floor(a / b) for b # 0
FloorDiv(a, b) == IF b > 0 THEN a \div b ELSE (0 - a) \div (0 - b)

\* SpatialHash.getBounds
getBounds(AABB) ==
    [xStart |-> FloorDiv(AABB.x, xSize),
     yStart |-> FloorDiv(AABB.y, ySize),
     xEnd |-> FloorDiv(AABB.x + AABB.width, xSize),
     yEnd |-> FloorDiv(AABB.y + AABB.height, ySize)]

\* SpatialHash.insert
insert(h, object, key) ==
    IF key \in DOMAIN h
    THEN [h EXCEPT ![key] = Append(@, object)]
    ELSE h @@ (key :> << object >>)

\* a removal that deletes the key of a bucket it has emptied
RECURSIVE removeFromHashDeleting(_, _)
removeFromHashDeleting(st, object) ==
    LET spatial == st.objects[object].spatial
    IN  IF ~spatial.def \/ Len(spatial.hashes) = 0 THEN st
        ELSE LET key == spatial.hashes[Len(spatial.hashes)]
                 popped == SubSeq(spatial.hashes, 1, Len(spatial.hashes) - 1)
                 list == IF key \in DOMAIN st.hash
                         THEN SpliceIndexOf(st.hash[key], object) ELSE << >>
             IN  removeFromHashDeleting(
                    [hash |-> [k \in (IF Len(list) = 0
                                      THEN DOMAIN st.hash \ {key}
                                      ELSE DOMAIN st.hash) |->
                                    IF k = key THEN list ELSE st.hash[k]],
                     objects |-> [st.objects EXCEPT ![object].spatial.hashes = popped]],
                    object)

\* SpatialHash.removeFromHash, on st = [hash, objects]
RECURSIVE removeFromHash(_, _)
removeFromHash(st, object) ==
    LET spatial == st.objects[object].spatial
    IN  IF ~spatial.def \/ Len(spatial.hashes) = 0 THEN st
        ELSE LET key == spatial.hashes[Len(spatial.hashes)]
                 popped == SubSeq(spatial.hashes, 1, Len(spatial.hashes) - 1)
             IN  removeFromHash(
                    [hash |-> [st.hash EXCEPT ![key] = SpliceIndexOf(@, object)],
                     objects |-> [st.objects EXCEPT ![object].spatial.hashes = popped]],
                    object)

\* the AABB updateObject computes from the object's transform
ComputeAABB(ob) ==
    [def |-> TRUE,
     x |-> ob.x + ((LocalBounds.x - Pivot.x) * ob.scale.x),
     y |-> ob.y + ((LocalBounds.y - Pivot.y) * ob.scale.y),
     width |-> LocalBounds.width * ob.scale.x,
     height |-> LocalBounds.height * ob.scale.y]

RECURSIVE InsertKeys(_, _, _, _)
InsertKeys(st, object, keys, i) ==
    IF i > Len(keys) THEN st
    ELSE InsertKeys(
            [hash |-> insert(st.hash, object, keys[i]),
             objects |-> [st.objects EXCEPT
                            ![object].spatial.hashes = Append(@, keys[i])]],
            object, keys, i + 1)

\* updateObject without the "only remove and insert if mapping has changed"
\* test: every call inserts the object into the cells of its range
updateObjectAlwaysInsert(st, object) ==
    LET ob == st.objects[object]
        AABB == ComputeAABB(ob)
        spatial == IF ob.spatial.def THEN ob.spatial ELSE NewSpatial
        b == getBounds(AABB)
        st0 == [st EXCEPT !.objects[object].AABB = AABB,
                          !.objects[object].spatial = spatial]
        st2 == InsertKeys(st0, object, RangeKeys(b), 1)
    IN  [st2 EXCEPT !.objects[object].spatial.cached = TRUE,
                    !.objects[object].spatial.xStart = b.xStart,
                    !.objects[object].spatial.yStart = b.yStart,
                    !.objects[object].spatial.xEnd = b.xEnd,
                    !.objects[object].spatial.yEnd = b.yEnd]

\* SpatialHash.updateObject, on st = [hash, objects]
updateObject(st, object) ==
    LET ob == st.objects[object]
        AABB == ComputeAABB(ob)
        spatial == IF ob.spatial.def THEN ob.spatial ELSE NewSpatial
        b == getBounds(AABB)
        st0 == [st EXCEPT !.objects[object].AABB = AABB,
                          !.objects[object].spatial = spatial]
    IN  IF ~spatial.cached \/ spatial.xStart # b.xStart \/ spatial.yStart # b.yStart
           \/ spatial.xEnd # b.xEnd \/ spatial.yEnd # b.yEnd
        THEN LET st1 == IF Len(spatial.hashes) > 0
                        THEN removeFromHash(st0, object) ELSE st0
                 st2 == InsertKeys(st1, object, RangeKeys(b), 1)
             IN  [st2 EXCEPT !.objects[object].spatial.cached = TRUE,
                             !.objects[object].spatial.xStart = b.xStart,
                             !.objects[object].spatial.yStart = b.yStart,
                             !.objects[object].spatial.xEnd = b.xEnd,
                             !.objects[object].spatial.yEnd = b.yEnd]
        ELSE st0

State == [hash |-> hash, objects |-> objects]

BucketsBounded(h) == \A k \in DOMAIN h : Len(h[k]) <= MaxBucket


\* a pass that updates every object of the list, dirty or not
RECURSIVE UpdateListAll(_, _, _, _)
UpdateListAll(st, list, i, mode) ==
    IF i > Len(list) THEN st
    ELSE UpdateListAll([updateObject(st, list[i]) EXCEPT
                            !.objects[list[i]].dirty = FALSE],
                       list, i + 1, mode)

\* one pass of an updateObjects loop over a list of objects; mode says which
\* of the three loop bodies runs: "dirty" (if object.dirty: update, clear),
\* "nonstatic" (if !object.staticObject: update), "all" (update)
RECURSIVE UpdateList(_, _, _, _)
UpdateList(st, list, i, mode) ==
    IF i > Len(list) THEN st
    ELSE LET object == list[i]
             ob == st.objects[object]
             st1 == IF mode = "dirty"
                    THEN IF ob.dirty
                         THEN [updateObject(st, object) EXCEPT
                                    !.objects[object].dirty = FALSE]
                         ELSE st
                    ELSE IF mode = "nonstatic"
                    THEN IF ~ob.staticObject THEN updateObject(st, object) ELSE st
                    ELSE updateObject(st, object)
         IN  UpdateList(st1, list, i + 1, mode)

\* a test that takes no container for static
IsStaticNever(c) == FALSE

\* container.cull?.static
IsStatic(c) == cull[c].def /\ cull[c].static

\* the loop of updateObjects over this.containers
RECURSIVE UpdateContainers(_, _, _)
UpdateContainers(st, i, mode) ==
    IF i > Len(containers) THEN st
    ELSE UpdateContainers(
            IF ~IsStatic(containers[i])
            THEN UpdateList(st, children[containers[i]], 1, mode)
            ELSE st,
            i + 1, mode)

\* SpatialHash.updateObjects, on st = [hash, objects]
updateObjects(st) ==
    IF dirtyTest
    THEN UpdateContainers(UpdateList(st, elements, 1, "dirty"), 1, "dirty")
    ELSE UpdateContainers(UpdateList(st, elements, 1, "nonstatic"), 1, "all")

\* the objects SpatialHash.invisible and SpatialHash.stats walk over
Tracked ==
    { elements[i] : i \in 1..Len(elements) } \cup
    { o \in Objects : \E i \in 1..Len(containers) :
            \E j \in 1..Len(children[containers[i]]) :
                children[containers[i]][j] = o }

\* SpatialHash.invisible
invisible(obs) ==
    [o \in Objects |-> IF o \in Tracked THEN [obs[o] EXCEPT !.visible = FALSE]
                       ELSE obs[o]]

\* a bounds check that lets boxes pass that only touch
IntersectsClosed(box, AABB) ==
    /\ box.x + box.width >= AABB.x
    /\ box.x <= AABB.x + AABB.width
    /\ box.y + box.height >= AABB.y
    /\ box.y <= AABB.y + AABB.height

\* the bounds check of query on one bucket member
Intersects(box, AABB) ==
    /\ box.x + box.width > AABB.x
    /\ box.x < AABB.x + AABB.width
    /\ box.y + box.height > AABB.y
    /\ box.y < AABB.y + AABB.height

\* a bucket scan that lets every member pass
FilterEntryAll(entry, obs, AABB, i) == entry

\* the members of one bucket that pass the bounds check, in bucket order
RECURSIVE FilterEntry(_, _, _, _)
FilterEntry(entry, obs, AABB, i) ==
    IF i > Len(entry) THEN << >>
    ELSE (IF Intersects(obs[entry[i]].AABB, AABB) THEN << entry[i] >> ELSE << >>)
         \o FilterEntry(entry, obs, AABB, i + 1)

\* SpatialHash.query: [results, buckets] over the cells of AABB's range
RECURSIVE QueryKeys(_, _, _, _, _, _)
QueryKeys(h, obs, AABB, simple, keys, i) ==
    IF i > Len(keys) THEN [results |-> << >>, buckets |-> 0]
    ELSE LET more == QueryKeys(h, obs, AABB, simple, keys, i + 1)
         IN  IF keys[i] \in DOMAIN h
             THEN [results |-> (IF simple
                                THEN FilterEntry(h[keys[i]], obs, AABB, 1)
                                ELSE h[keys[i]]) \o more.results,
                   buckets |-> more.buckets + 1]
             ELSE more

query(h, obs, AABB, simple) ==
    QueryKeys(h, obs, AABB, simple, RangeKeys(getBounds(AABB)), 1)

Range(seq) == { seq[i] : i \in 1..Len(seq) }

\* what the callback of a cull pass sees of the objects it is handed
RECURSIVE Observe(_, _, _)
Observe(list, obs, i) ==
    IF i > Len(list) THEN << >>
    ELSE << [object |-> list[i], visible |-> obs[list[i]].visible] >>
         \o Observe(list, obs, i + 1)

\* SpatialHash.queryCallbackAll: [results, buckets, calls], calls being the
\* callback's invocations in order (its return value is ignored)
RECURSIVE QueryKeysCallbackAll(_, _, _, _, _, _)
QueryKeysCallbackAll(h, obs, AABB, simple, keys, i) ==
    IF i > Len(keys) THEN [results |-> << >>, buckets |-> 0, calls |-> << >>]
    ELSE LET more == QueryKeysCallbackAll(h, obs, AABB, simple, keys, i + 1)
         IN  IF keys[i] \in DOMAIN h
             THEN LET found == IF simple
                               THEN FilterEntry(h[keys[i]], obs, AABB, 1)
                               ELSE h[keys[i]]
                  IN  [results |-> found \o more.results,
                       buckets |-> more.buckets + 1,
                       calls |-> Observe(found, obs, 1) \o more.calls]
             ELSE more

queryCallbackAll(h, obs, AABB, simple) ==
    QueryKeysCallbackAll(h, obs, AABB, simple, RangeKeys(getBounds(AABB)), 1)

\* a bucket loop that goes on after the callback returned true
RECURSIVE ScanEntryNoStop(_, _, _, _, _)
ScanEntryNoStop(entry, obs, callback, simple, i) ==
    IF i > Len(entry) THEN [calls |-> << >>, found |-> FALSE]
    ELSE LET more == ScanEntryNoStop(entry, obs, callback, simple, i + 1)
         IN  [calls |-> << entry[i] >> \o more.calls,
              found |-> entry[i] \in callback \/ more.found]

\* the loop of queryCallback over one bucket: the callback's invocations and
\* whether one of them returned true.  callback is the set of objects the
\* caller's function returns true for.  Inside the simpleTest branch the name
\* AABB is the object's own box, which the test compares with itself.
RECURSIVE ScanEntry(_, _, _, _, _)
ScanEntry(entry, obs, callback, simple, i) ==
    IF i > Len(entry) THEN [calls |-> << >>, found |-> FALSE]
    ELSE LET object == entry[i]
             AABB == obs[object].AABB
         IN  IF simple /\ ~Intersects(AABB, AABB)
             THEN ScanEntry(entry, obs, callback, simple, i + 1)
             ELSE IF object \in callback
                  THEN [calls |-> << object >>, found |-> TRUE]
                  ELSE LET more == ScanEntry(entry, obs, callback, simple, i + 1)
                       IN  [calls |-> << object >> \o more.calls,
                            found |-> more.found]

\* the loops of queryCallback over the cells of the range
RECURSIVE ScanKeys(_, _, _, _, _, _)
ScanKeys(h, obs, callback, simple, keys, i) ==
    IF i > Len(keys) THEN [calls |-> << >>, found |-> FALSE]
    ELSE IF keys[i] \in DOMAIN h
         THEN LET here == ScanEntry(h[keys[i]], obs, callback, simple, 1)
              IN  IF here.found THEN here
                  ELSE LET more == ScanKeys(h, obs, callback, simple, keys, i + 1)
                       IN  [calls |-> here.calls \o more.calls,
                            found |-> more.found]
         ELSE ScanKeys(h, obs, callback, simple, keys, i + 1)

\* SpatialHash.queryCallback: [calls, found], found being the value returned
queryCallback(h, obs, AABB, callback, simple) ==
    ScanKeys(h, obs, callback, simple, RangeKeys(getBounds(AABB)), 1)

\* the `added` handler of addContainer, run once per subscribed handler
RECURSIVE added(_, _, _)
added(st, object, times) ==
    IF times = 0 THEN st
    ELSE added(updateObject([st EXCEPT !.objects[object].spatial = NewSpatial],
                            object),
               object, times - 1)

\* the first loop of addContainer over container.children
RECURSIVE IndexChildren(_, _, _)
IndexChildren(st, list, i) ==
    IF i > Len(list) THEN st
    ELSE IndexChildren(added(st, list[i], 1), list, i + 1)

\* container.children.forEach((object) => this.removeFromHash(object))
RECURSIVE PurgeChildren(_, _, _)
PurgeChildren(st, list, i) ==
    IF i > Len(list) THEN st
    ELSE PurgeChildren(removeFromHash(st, list[i]), list, i + 1)

\* the container an object is a child of (0 when it has no parent)
Parent(object) ==
    IF \E c \in Containers : object \in Range(children[c])
    THEN CHOOSE c \in Containers : object \in Range(children[c])
    ELSE 0

\* SpatialHash.neighbors
RECURSIVE ConcatBuckets(_, _, _)
ConcatBuckets(h, keys, i) ==
    IF i > Len(keys) THEN << >>
    ELSE h[keys[i]] \o ConcatBuckets(h, keys, i + 1)

neighbors(h, obs, object) ==
    IF obs[object].spatial.def
    THEN ConcatBuckets(h, obs[object].spatial.hashes, 1)
    ELSE << >>


\* -------------------------------------------------------- diagnostics ----
\* stands for the number Infinity: larger than every cell coordinate
Infinity == 1000000

\* SpatialHash.getBuckets: the buckets that hold at least minimum objects,
\* each with its key (the order of `for ... in` is not kept)
getBuckets(h, minimum) ==
    { [key |-> k, bucket |-> h[k]] : k \in { j \in DOMAIN h : Len(h[j]) >= minimum } }

\* SpatialHash.getNumberOfBuckets
getNumberOfBuckets(h) == Cardinality(DOMAIN h)

\* the sum of the lengths of the buckets of the keys in keys
RECURSIVE TotalLength(_, _)
TotalLength(h, keys) ==
    IF keys = {} THEN 0
    ELSE LET k == CHOOSE j \in keys : TRUE
         IN  Len(h[k]) + TotalLength(h, keys \ {k})

\* SpatialHash.getAverageSize: the quotient total / getBuckets().length as
\* numerator and denominator (0 / 0 is NaN)
getAverageSize(h) ==
    [num |-> TotalLength(h, DOMAIN h), den |-> Cardinality(getBuckets(h, 1))]

\* SpatialHash.getLargest
getLargest(h) ==
    IF \A k \in DOMAIN h : Len(h[k]) = 0 THEN 0
    ELSE CHOOSE n \in { Len(h[k]) : k \in DOMAIN h } :
            \A k \in DOMAIN h : Len(h[k]) <= n

\* the least and the greatest of a set of numbers and a start value
Least(start, values) ==
    CHOOSE n \in values \cup {start} : \A m \in values \cup {start} : n <= m
Greatest(start, values) ==
    CHOOSE n \in values \cup {start} : \A m \in values \cup {start} : m <= n

\* SpatialHash.getWorldBounds
getWorldBounds(h) ==
    [xStart |-> Least(Infinity, { k[1] : k \in DOMAIN h }),
     yStart |-> Least(Infinity, { k[2] : k \in DOMAIN h }),
     xEnd |-> Greatest(0, { k[1] : k \in DOMAIN h }),
     yEnd |-> Greatest(0, { k[2] : k \in DOMAIN h })]

\* SpatialHash.getSparseness over the bounds b: the quotient count / total as
\* numerator and denominator, the loops stopping before xEnd and yEnd
getSparseness(h, b) ==
    LET cells == { Key(x, y) : x \in b.xStart..(b.xEnd - 1),
                               y \in b.yStart..(b.yEnd - 1) }
    IN  [num |-> Cardinality(cells \cap DOMAIN h), den |-> Cardinality(cells)]

\* the number of entries of list that are visible
RECURSIVE CountVisible(_, _, _)
CountVisible(list, obs, i) ==
    IF i > Len(list) THEN 0
    ELSE (IF obs[list[i]].visible THEN 1 ELSE 0) + CountVisible(list, obs, i + 1)

\* the loop of stats over this.containers: [visible, count]
RECURSIVE StatsContainers(_, _)
StatsContainers(obs, i) ==
    IF i > Len(containers) THEN [visible |-> 0, count |-> 0]
    ELSE LET more == StatsContainers(obs, i + 1)
             list == children[containers[i]]
         IN  [visible |-> CountVisible(list, obs, 1) + more.visible,
              count |-> Len(list) + more.count]

\* SpatialHash.stats
stats(obs) ==
    LET inner == StatsContainers(obs, 1)
        visible == CountVisible(elements, obs, 1) + inner.visible
        count == Len(elements) + inner.count
    IN  [buckets |-> lastBuckets, total |-> count, visible |-> visible,
         culled |-> count - visible]

\* --------------------------------------------------------------- Init ----
\* no call of a reading operation is on record
NoCall == [op |-> "none"]

\* SpatialHash.constructor: the fields of the new index
constructor(options) ==
    LET merged == options @@ SpatialHashDefaultOptions
        bySize == "size" \in DOMAIN merged /\ merged.size # 0
    IN  [xSize |-> IF bySize THEN merged.size ELSE merged.xSize,
         ySize |-> IF bySize THEN merged.size ELSE merged.ySize,
         simpleTest |-> merged.simpleTest,
         dirtyTest |-> merged.dirtyTest,
         hash |-> << >>,
         containers |-> << >>,
         elements |-> << >>]

\* SpatialHash.constructor, and a scene of fresh display objects
Init ==
    /\ \E size \in CellSizes : xSize = size /\ ySize = size
    /\ simpleTest \in BOOLEAN
    /\ dirtyTest \in BOOLEAN
    /\ hash = << >>
    /\ containers = << >>
    /\ elements = << >>
    /\ lastBuckets = 0
    /\ objects = [o \in Objects |->
                    [x |-> 0, y |-> 0, scale |-> [x |-> 1, y |-> 1],
                     dirty |-> FALSE, staticObject |-> FALSE, visible |-> TRUE,
                     AABB |-> NoAABB, spatial |-> NoSpatial]]
    /\ children = [c \in Containers |-> << >>]
    /\ cull = [c \in Containers |-> [def |-> FALSE, static |-> FALSE]]
    /\ listeners = [c \in Containers |-> [childAdded |-> 0, childRemoved |-> FALSE]]
    /\ history = [refreshed |-> FALSE, static |-> {}, call |-> NoCall]

\* ------------------------------------------------------------ actions ----
\* SpatialHash.add
add(object, staticObject) ==
    /\ Len(elements) < MaxElements
    /\ LET obs1 == [objects EXCEPT
                        ![object].spatial = NewSpatial,
                        ![object].dirty = IF dirtyTest THEN TRUE ELSE @,
                        ![object].staticObject = IF staticObject THEN TRUE ELSE @]
           st == updateObject([hash |-> hash, objects |-> obs1], object)
       IN  /\ BucketsBounded(st.hash)
           /\ hash' = st.hash
           /\ objects' = st.objects
    /\ elements' = Append(elements, object)
    /\ UNCHANGED << config, containers, lastBuckets, children, cull, listeners >>

\* SpatialHash.remove
remove(object) ==
    /\ elements' = SpliceIndexOf(elements, object)
    /\ LET st == removeFromHash(State, object)
       IN  hash' = st.hash /\ objects' = st.objects
    /\ UNCHANGED << config, containers, lastBuckets, children, cull, listeners >>

\* SpatialHash.addContainer
addContainer(container, staticObject) ==
    /\ Len(containers) < MaxContainers
    /\ LET st == IndexChildren(State, children[container], 1)
       IN  /\ BucketsBounded(st.hash)
           /\ hash' = st.hash
           /\ objects' = st.objects
    /\ cull' = [cull EXCEPT ![container] = [def |-> TRUE, static |-> staticObject]]
    /\ containers' = Append(containers, container)
    /\ listeners' = [listeners EXCEPT ![container] =
                        [childAdded |-> @.childAdded + 1, childRemoved |-> TRUE]]
    /\ UNCHANGED << config, elements, lastBuckets, children >>

\* SpatialHash.removeContainer. container.off('childAdded', fn) drops the
\* handler stored in container.cull, or every childAdded handler when
\* container.cull is gone and fn is undefined; the second off() names the
\* event 'removedFrom', so the childRemoved handler stays subscribed.
removeContainer(container) ==
    /\ containers' = SpliceIndexOf(containers, container)
    /\ LET st == PurgeChildren(State, children[container], 1)
       IN  hash' = st.hash /\ objects' = st.objects
    /\ listeners' = [listeners EXCEPT ![container].childAdded =
                        IF cull[container].def THEN @ - 1 ELSE 0]
    /\ cull' = [cull EXCEPT ![container] = [def |-> FALSE, static |-> FALSE]]
    /\ UNCHANGED << config, elements, lastBuckets, children >>

\* container.addChild(object) by the owner of the scene: the object leaves
\* its old parent (which emits childRemoved), joins container.children, and
\* the container emits childAdded to the handlers subscribed on it
addChild(container, object) ==
    /\ LET old == Parent(object)
           st1 == IF old # 0 /\ listeners[old].childRemoved
                  THEN removeFromHash(State, object) ELSE State
           st2 == added(st1, object, listeners[container].childAdded)
       IN  /\ BucketsBounded(st2.hash)
           /\ hash' = st2.hash
           /\ objects' = st2.objects
           /\ children' = [c \in Containers |->
                            LET kept == IF c = old
                                        THEN SpliceIndexOf(children[c], object)
                                        ELSE children[c]
                            IN  IF c = container THEN Append(kept, object) ELSE kept]
    /\ UNCHANGED << config, containers, elements, lastBuckets, cull, listeners >>

\* container.removeChild(object) by the owner of the scene: the container
\* emits childRemoved to the `removed` handler of addContainer
removeChild(container, object) ==
    /\ object \in Range(children[container])
    /\ children' = [children EXCEPT ![container] = SpliceIndexOf(@, object)]
    /\ LET st == IF listeners[container].childRemoved
                 THEN removeFromHash(State, object) ELSE State
       IN  hash' = st.hash /\ objects' = st.objects
    /\ UNCHANGED << config, containers, elements, lastBuckets, cull, listeners >>

\* the owner of an object changes its transform (position, scale)
setTransform(object, t) ==
    /\ t # [x |-> objects[object].x, y |-> objects[object].y,
            scale |-> objects[object].scale.x]
    /\ objects' = [objects EXCEPT ![object].x = t.x, ![object].y = t.y,
                                  ![object].scale = [x |-> t.scale, y |-> t.scale]]
    /\ UNCHANGED << config, hash, containers, elements, lastBuckets, children,
                    cull, listeners >>

\* the owner of an object marks it dirty (the flag is the owner's to set
\* when dirty-tracking is in use)
setDirty(object) ==
    /\ dirtyTest
    /\ ~objects[object].dirty
    /\ objects' = [objects EXCEPT ![object].dirty = TRUE]
    /\ UNCHANGED << config, hash, containers, elements, lastBuckets, children,
                    cull, listeners >>

\* a direct call of SpatialHash.updateObjects (refresh)
refresh ==
    /\ LET st == updateObjects(State)
       IN  hash' = st.hash /\ objects' = st.objects
    /\ UNCHANGED << config, containers, elements, lastBuckets, children, cull,
                    listeners >>

\* SpatialHash.cull without a callback
Cull(AABB, skipUpdate) ==
    /\ LET st == IF skipUpdate THEN State ELSE updateObjects(State)
           obs == invisible(st.objects)
           q == query(st.hash, obs, AABB, simpleTest)
       IN  /\ hash' = st.hash
           /\ objects' = [o \in Objects |->
                            IF o \in Range(q.results)
                            THEN [obs[o] EXCEPT !.visible = TRUE] ELSE obs[o]]
           /\ lastBuckets' = q.buckets
    /\ UNCHANGED << config, containers, elements, children, cull, listeners >>

\* SpatialHash.cull with a callback
cullWithCallback(AABB, skipUpdate) ==
    /\ LET st == IF skipUpdate THEN State ELSE updateObjects(State)
           obs == invisible(st.objects)
           q == queryCallbackAll(st.hash, obs, AABB, simpleTest)
       IN  /\ hash' = st.hash
           /\ objects' = [o \in Objects |->
                            IF o \in Range(q.results)
                            THEN [obs[o] EXCEPT !.visible = TRUE] ELSE obs[o]]
           /\ lastBuckets' = q.buckets
    /\ UNCHANGED << config, containers, elements, children, cull, listeners >>

\* a cull pass that runs to its end although the callback failed
cullCallbackSwallowed(AABB, skipUpdate, n) ==
    /\ LET st == IF skipUpdate THEN State ELSE updateObjects(State)
       IN  n \in 1..Len(queryCallbackAll(st.hash, invisible(st.objects), AABB,
                                         simpleTest).calls)
    /\ cullWithCallback(AABB, skipUpdate)

\* SpatialHash.cull with a callback that throws at its n-th invocation: no
\* try/catch stands between the callback and the caller of cull, so the pass
\* ends inside queryCallbackAll, after updateObjects and invisible, before
\* this.lastBuckets is assigned and before any object is made visible
cullCallbackFails(AABB, skipUpdate, n) ==
    /\ LET st == IF skipUpdate THEN State ELSE updateObjects(State)
           obs == invisible(st.objects)
           q == queryCallbackAll(st.hash, obs, AABB, simpleTest)
       IN  /\ n \in 1..Len(q.calls)
           /\ hash' = st.hash
           /\ objects' = obs
    /\ UNCHANGED << config, containers, elements, lastBuckets, children, cull,
                    listeners >>

\* SpatialHash.query called by the user of the index
Query(AABB, simple) ==
    /\ lastBuckets' = query(hash, objects, AABB, simple).buckets
    /\ UNCHANGED << config, hash, containers, elements, objects, children,
                    cull, listeners >>

\* SpatialHash.queryCallback called by the user of the index
QueryCallback(AABB, callback, simple) ==
    UNCHANGED << config, hash, containers, elements, lastBuckets, objects,
                 children, cull, listeners >>

\* a getSparseness that counts through query(), which writes this.lastBuckets
GetSparsenessByQuery(AABB) ==
    /\ lastBuckets' = query(hash, objects, AABB, FALSE).buckets
    /\ UNCHANGED << config, hash, containers, elements, objects, children,
                    cull, listeners >>

\* the diagnostics helpers called by the user of the index: none of them
\* assigns to a field of the index or of an object
GetBuckets(minimum) ==
    UNCHANGED << config, hash, containers, elements, lastBuckets, objects,
                 children, cull, listeners >>

GetNumberOfBuckets ==
    UNCHANGED << config, hash, containers, elements, lastBuckets, objects,
                 children, cull, listeners >>

GetAverageSize ==
    UNCHANGED << config, hash, containers, elements, lastBuckets, objects,
                 children, cull, listeners >>

GetLargest ==
    UNCHANGED << config, hash, containers, elements, lastBuckets, objects,
                 children, cull, listeners >>

GetWorldBounds ==
    UNCHANGED << config, hash, containers, elements, lastBuckets, objects,
                 children, cull, listeners >>

GetSparseness(AABB) ==
    UNCHANGED << config, hash, containers, elements, lastBuckets, objects,
                 children, cull, listeners >>

GetSparsenessOfWorld ==
    UNCHANGED << config, hash, containers, elements, lastBuckets, objects,
                 children, cull, listeners >>

Stats ==
    UNCHANGED << config, hash, containers, elements, lastBuckets, objects,
                 children, cull, listeners >>

\* ------------------------------------------------------ specifications ----
\* history.refreshed: the operation that produced this state was updateObjects;
\* history.static: the objects whose latest add() asked for staticObject;
\* history.call: the reading operation that produced this state, with its
\* arguments and what it returned
Log(r, s) == history' = [refreshed |-> r, static |-> s, call |-> NoCall]

Register ==
    \/ \E o \in Objects, s \in BOOLEAN :
            add(o, s) /\ Log(FALSE, IF s THEN history.static \cup {o}
                                    ELSE history.static \ {o})
    \/ \E o \in Objects : remove(o) /\ Log(FALSE, history.static)

RegisterDynamic ==
    \/ \E o \in Objects : add(o, FALSE) /\ Log(FALSE, history.static)
    \/ \E o \in Objects : remove(o) /\ Log(FALSE, history.static)

Notify ==
    \/ \E c \in Containers, s \in BOOLEAN : addContainer(c, s)
    \/ \E c \in Containers : removeContainer(c)
    \/ \E c \in Containers, o \in Objects : addChild(c, o)
    \/ \E c \in Containers, o \in Objects : removeChild(c, o)

Owner ==
    \/ \E o \in Objects, t \in Transforms : setTransform(o, t)
    \/ \E o \in Objects : setDirty(o)

\* an index that is never queried: simpleTest plays no part
InitIndex == Init /\ simpleTest = TRUE

\* an index with the default dirtyTest: true
InitCull == Init /\ dirtyTest = TRUE

\* an index constructed from any of ConstructorOptions
InitConstruct ==
    \E i \in 1..Len(ConstructorOptions) :
        LET new == constructor(ConstructorOptions[i])
        IN  /\ xSize = new.xSize
            /\ ySize = new.ySize
            /\ simpleTest = new.simpleTest
            /\ dirtyTest = new.dirtyTest
            /\ hash = new.hash
            /\ containers = new.containers
            /\ elements = new.elements
            /\ lastBuckets = 0
            /\ objects = [o \in Objects |->
                            [x |-> 0, y |-> 0, scale |-> [x |-> 1, y |-> 1],
                             dirty |-> FALSE, staticObject |-> FALSE,
                             visible |-> TRUE,
                             AABB |-> NoAABB, spatial |-> NoSpatial]]
            /\ children = [c \in Containers |-> << >>]
            /\ cull = [c \in Containers |-> [def |-> FALSE, static |-> FALSE]]
            /\ listeners = [c \in Containers |->
                                [childAdded |-> 0, childRemoved |-> FALSE]]
            /\ history = [refreshed |-> FALSE, static |-> {},
                          call |-> [op |-> "constructor", options |-> i]]

\* objects and containers under registration, notifications, moves, refreshes
Next ==
    \/ RegisterDynamic
    \/ Notify /\ Log(FALSE, history.static)
    \/ Owner /\ Log(FALSE, history.static)
    \/ refresh /\ Log(TRUE, history.static)

Spec == InitIndex /\ [][Next]_vars

\* individually registered objects, static or not, under moves and refreshes
NextElements ==
    \/ Register
    \/ Owner /\ Log(FALSE, history.static)
    \/ refresh /\ Log(TRUE, history.static)

SpecElements == InitIndex /\ [][NextElements]_vars

\* individually registered objects under moves, refreshes and cull passes
NextCull ==
    \/ RegisterDynamic
    \/ Owner /\ Log(FALSE, history.static)
    \/ refresh /\ Log(TRUE, history.static)
    \/ \E r \in Rects, skip \in BOOLEAN : Cull(r, skip) /\ Log(FALSE, history.static)

SpecCull == InitCull /\ [][NextCull]_vars

\* the call on record is c
Called(c) == history' = [refreshed |-> FALSE, static |-> history.static, call |-> c]

\* the callbacks handed to queryCallback, as the objects they return true for
Callbacks == { {}, {1} }

\* the reading operations, each recorded with its arguments and its result
Read ==
    \/ \E r \in Rects, s \in BOOLEAN :
            /\ Query(r, s)
            /\ Called([op |-> "query", rect |-> r, simple |-> s,
                       results |-> query(hash, objects, r, s).results])
    \/ \E r \in Rects, cb \in Callbacks, s \in BOOLEAN :
            /\ QueryCallback(r, cb, s)
            /\ LET q == queryCallback(hash, objects, r, cb, s)
               IN  Called([op |-> "queryCallback", rect |-> r, simple |-> s,
                           callback |-> cb, calls |-> q.calls, found |-> q.found])

\* a cull pass with a callback, recorded with the callback's invocations
CullPass ==
    \E r \in Rects, skip \in BOOLEAN :
        /\ cullWithCallback(r, skip)
        /\ LET st == IF skip THEN State ELSE updateObjects(State)
           IN  Called([op |-> "cull", rect |-> r, skipUpdate |-> skip,
                       calls |-> queryCallbackAll(st.hash, invisible(st.objects),
                                                  r, simpleTest).calls])

\* the owner of an object moves it
Move ==
    \E o \in Objects, t \in Transforms :
        setTransform(o, t) /\ Log(FALSE, history.static)

\* an index in full-scan mode
InitFullScan == Init /\ dirtyTest = FALSE

\* an index in full-scan mode that is only queried: this.simpleTest plays no
\* part, query and queryCallback take simpleTest as an argument
InitQuery == InitFullScan /\ simpleTest = TRUE

\* individually registered objects under moves, refreshes and queries
NextQuery ==
    \/ RegisterDynamic
    \/ Move
    \/ refresh /\ Log(TRUE, history.static)
    \/ Read

SpecQuery == InitQuery /\ [][NextQuery]_vars

\* individually registered objects under moves, refreshes and cull passes
\* that hand every object they collect to a callback
NextCullCallback ==
    \/ RegisterDynamic
    \/ Move
    \/ refresh /\ Log(TRUE, history.static)
    \/ CullPass

SpecCullCallback == InitFullScan /\ [][NextCullCallback]_vars

\* the thresholds handed to getBuckets
Minimums == {1, 2}

\* the diagnostics helpers, each recorded with what it returned
Diagnose ==
    \/ \E m \in Minimums :
            GetBuckets(m) /\ Called([op |-> "getBuckets", minimum |-> m,
                                     value |-> getBuckets(hash, m)])
    \/ GetNumberOfBuckets
            /\ Called([op |-> "getNumberOfBuckets", value |-> getNumberOfBuckets(hash)])
    \/ GetAverageSize
            /\ Called([op |-> "getAverageSize", value |-> getAverageSize(hash)])
    \/ GetLargest /\ Called([op |-> "getLargest", value |-> getLargest(hash)])
    \/ GetWorldBounds
            /\ Called([op |-> "getWorldBounds", value |-> getWorldBounds(hash)])
    \/ \E r \in Rects :
            GetSparseness(r)
                /\ Called([op |-> "getSparseness", rect |-> r,
                           value |-> getSparseness(hash, getBounds(r))])
    \/ GetSparsenessOfWorld
            /\ Called([op |-> "getSparsenessOfWorld",
                       value |-> getSparseness(hash, getWorldBounds(hash))])
    \/ Stats /\ Called([op |-> "stats", value |-> stats(objects)])

\* individually registered objects under moves, refreshes, cull passes over
\* the whole scene, and diagnostics
NextDiagnostics ==
    \/ RegisterDynamic
    \/ Move
    \/ refresh /\ Log(TRUE, history.static)
    \/ \E r \in Rects : Cull(r, TRUE) /\ Log(FALSE, history.static)
    \/ Diagnose

SpecDiagnostics == InitQuery /\ [][NextDiagnostics]_vars

\* the owner of an object moves it, also by less than a cell
MoveNear ==
    \E o \in Objects, t \in NearTransforms :
        setTransform(o, t) /\ Log(FALSE, history.static)

\* individually registered objects in full-scan mode under moves that change
\* the cell range and moves that do not
NextNear ==
    \/ RegisterDynamic
    \/ MoveNear
    \/ refresh /\ Log(TRUE, history.static)

SpecNear == InitQuery /\ [][NextNear]_vars

\* queries and cull passes with the bounds check over rectangles that touch
\* the boxes of the objects
ReadEdge ==
    \/ \E r \in EdgeRects :
            /\ Query(r, TRUE)
            /\ Called([op |-> "query", rect |-> r, simple |-> TRUE,
                       results |-> query(hash, objects, r, TRUE).results])
    \/ \E r \in EdgeRects :
            /\ Cull(r, FALSE)
            /\ Called([op |-> "cullNoCallback", rect |-> r, skipUpdate |-> FALSE])

NextEdge ==
    \/ RegisterDynamic
    \/ Move
    \/ refresh /\ Log(TRUE, history.static)
    \/ ReadEdge

SpecEdge == InitQuery /\ [][NextEdge]_vars

\* the owner of an object moves it to a cell of another row or column
MoveWide ==
    \E o \in Objects, t \in WideTransforms :
        setTransform(o, t) /\ Log(FALSE, history.static)

\* query calls, recorded with their arguments and the sequence they return
ReadOrder ==
    \E r \in WideRects, s \in BOOLEAN :
        /\ Query(r, s)
        /\ Called([op |-> "query", rect |-> r, simple |-> s,
                   results |-> query(hash, objects, r, s).results])

\* the children of a tracked container spread over the rows and columns of
\* the grid, under refreshes and queries
NextOrder ==
    \/ \E c \in Containers : addContainer(c, FALSE) /\ Log(FALSE, history.static)
    \/ \E c \in Containers, o \in Objects :
            addChild(c, o) /\ Log(FALSE, history.static)
    \/ MoveWide
    \/ refresh /\ Log(TRUE, history.static)
    \/ ReadOrder

SpecOrder == InitQuery /\ [][NextOrder]_vars

\* the owner of an object moves it across the origin
MoveFar ==
    \E o \in Objects, t \in FarTransforms :
        setTransform(o, t) /\ Log(FALSE, history.static)

\* individually registered objects on both sides of the origin, under
\* refreshes and getWorldBounds calls
NextWorld ==
    \/ RegisterDynamic
    \/ MoveFar
    \/ refresh /\ Log(TRUE, history.static)
    \/ GetWorldBounds
            /\ Called([op |-> "getWorldBounds", value |-> getWorldBounds(hash)])

SpecWorld == InitQuery /\ [][NextWorld]_vars

\* the invocations at which a failing callback throws
FailAt == {1, 2}

\* what leaves cull when the callback throws at its n-th invocation: the
\* callback's own error, here named by the object it was raised for
Thrown(AABB, skipUpdate, n) ==
    LET st == IF skipUpdate THEN State ELSE updateObjects(State)
    IN  [error |-> queryCallbackAll(st.hash, invisible(st.objects), AABB,
                                    simpleTest).calls[n].object]

\* a cull pass whose callback fails, recorded with what the caller receives
CullFails ==
    \E r \in Rects, skip \in BOOLEAN, n \in FailAt :
        /\ cullCallbackFails(r, skip, n)
        /\ Called([op |-> "cullFails", rect |-> r, skipUpdate |-> skip,
                   at |-> n, thrown |-> Thrown(r, skip, n)])

\* individually registered objects under moves and cull passes with the bounds
\* check whose callback returns or fails
NextCullFails ==
    \/ RegisterDynamic
    \/ Move
    \/ CullPass
    \/ CullFails

SpecCullFails == InitQuery /\ [][NextCullFails]_vars

\* an index constructed from caller-supplied options, then used
SpecConstruct == InitConstruct /\ [][NextElements]_vars

\* ------------------------------------------------------------- claims ----
Count(list, e) == Cardinality({ i \in 1..Len(list) : list[i] = e })

\* the objects that are members of some bucket of h
BucketMembers(h) == UNION { Range(h[k]) : k \in DOMAIN h }

\* the objects the index holds a reference to
Known == Tracked \cup BucketMembers(hash)

\* the cell range of an object's current transform
CurrentBounds(o) == getBounds(ComputeAABB(objects[o]))

CachedBounds(o) ==
    [xStart |-> objects[o].spatial.xStart, yStart |-> objects[o].spatial.yStart,
     xEnd |-> objects[o].spatial.xEnd, yEnd |-> objects[o].spatial.yEnd]

SpatialOf(obs) == [o \in Objects |-> obs[o].spatial]

\* C1: for every tracked object O and every key K of O's spatial state, O is
\* exactly once in bucket K, and every bucket entry's owner has the bucket's
\* key in its spatial state.
C1_BidirectionalConsistency ==
    /\ \A o \in Tracked : \A i \in 1..Len(objects[o].spatial.hashes) :
            LET k == objects[o].spatial.hashes[i]
            IN  k \in DOMAIN hash /\ Count(hash[k], o) = 1
    /\ \A k \in DOMAIN hash : \A i \in 1..Len(hash[k]) :
            k \in Range(objects[hash[k][i]].spatial.hashes)

\* the objects in the buckets of the cells of AABB's range
CellMembers(h, AABB) ==
    UNION { Range(h[k]) : k \in Range(RangeKeys(getBounds(AABB))) \cap DOMAIN h }

\* the objects of obs the index knows (tracked, or left in a bucket of h)
\* that are visible
VisibleSet(h, obs, tracked) ==
    { o \in tracked \cup BucketMembers(h) : obs[o].visible }

\* C2: with simpleTest on, after cull(R) the visible objects are exactly the
\* registered objects whose cached AABB intersects R, and every other tracked
\* object is invisible.
C2_CullSimpleTestExact ==
    [][\A r \in Rects, skip \in BOOLEAN :
        (simpleTest /\ Cull(r, skip) /\ ~history'.refreshed) =>
            /\ VisibleSet(hash', objects', Tracked') =
                    { o \in Tracked' : Intersects(objects'[o].AABB, r) }
            /\ \A o \in Tracked' :
                    ~Intersects(objects'[o].AABB, r) => ~objects'[o].visible]_vars

\* C3: with simpleTest off, after cull(R) the visible objects are exactly the
\* tracked objects that are members of a bucket of a cell of R's range, and
\* they include everything the same cull marks with simpleTest on.
C3_CullBucketsExact ==
    [][\A r \in Rects, skip \in BOOLEAN :
        (~simpleTest /\ Cull(r, skip) /\ ~history'.refreshed) =>
            /\ VisibleSet(hash', objects', Tracked') =
                    { o \in Tracked' : o \in CellMembers(hash', r) }
            /\ Range(query(hash', objects', r, TRUE).results)
                    \subseteq VisibleSet(hash', objects', Tracked')]_vars

\* o sits exactly once in every bucket of the range b and in no other bucket
\* of h, and its spatial state in obs lists the keys of b and caches b
IndexedExactlyAt(h, obs, o, b) ==
    /\ obs[o].spatial.hashes = RangeKeys(b)
    /\ obs[o].spatial.cached
    /\ obs[o].spatial.xStart = b.xStart /\ obs[o].spatial.yStart = b.yStart
    /\ obs[o].spatial.xEnd = b.xEnd /\ obs[o].spatial.yEnd = b.yEnd
    /\ \A k \in DOMAIN h :
            Count(h[k], o) = IF k \in Range(RangeKeys(b)) THEN 1 ELSE 0

\* C4: a registered non-static object whose transform changed so that its
\* cell range changed and whose dirty flag is set is, after updateObjects, in
\* exactly the buckets of the new range, once each, with the new range cached.
C4_MoveInvalidation ==
    [][\A o \in Objects :
        ( /\ refresh /\ history'.refreshed
          /\ o \in Range(elements)
          /\ o \notin history.static
          /\ objects[o].dirty
          /\ objects[o].spatial.cached
          /\ CurrentBounds(o) # CachedBounds(o) )
        => IndexedExactlyAt(hash', objects', o, CurrentBounds(o))]_vars

\* C5: an object registered with add(object, true) is never re-indexed by
\* updateObjects: its bucket memberships, cached range and cached AABB stay
\* as they were, whatever its transform and dirty flag.
C5_StaticExemption ==
    [][\A o \in Objects :
        (refresh /\ history'.refreshed /\ o \in Range(elements)
            /\ o \in history.static)
        => /\ objects'[o].spatial = objects[o].spatial
           /\ objects'[o].AABB = objects[o].AABB
           /\ \A k \in DOMAIN hash' :
                Count(hash'[k], o) = IF k \in DOMAIN hash THEN Count(hash[k], o) ELSE 0]_vars

\* C6: updateObjects run right after updateObjects, with nothing in between,
\* leaves every bucket and every object's spatial state as the first run left
\* them (in dirty-test and in full-scan mode).
C6_IdempotentRefresh ==
    [][(history.refreshed /\ history'.refreshed)
        => (hash' = hash /\ SpatialOf(objects') = SpatialOf(objects))]_vars

\* a refresh has just run in an index that holds an object spanning several
\* cells next to another tracked object it shares a bucket with
C6_Witness ==
    /\ history.refreshed
    /\ \E o \in Tracked, p \in Tracked :
            /\ o # p
            /\ Len(objects[o].spatial.hashes) > 1
            /\ \E k \in DOMAIN hash : o \in Range(hash[k]) /\ p \in Range(hash[k])
    /\ updateObjects(State) = State

\* C7: after remove(A) of a registered object A, A is a member of no bucket
\* and its spatial state lists no key, so neighbors() of no object returns A.
C7_RemovePurges ==
    [][\A a \in Objects :
        (a \in Range(elements) /\ remove(a))
        => /\ a \notin BucketMembers(hash')
           /\ objects'[a].spatial.hashes = << >>
           /\ \A b \in Objects : a \notin Range(neighbors(hash', objects', b))]_vars

\* the index is as it was, but for the spatial state of the objects in except
IndexUnchanged(except) ==
    /\ elements' = elements
    /\ containers' = containers
    /\ hash' = hash
    /\ \A p \in Objects \ except : objects'[p].spatial = objects[p].spatial

\* C8: remove(object) of an object that is not in this.elements, and
\* removeContainer(container) of a container that is not in this.containers,
\* change neither list, no bucket and no other object's spatial state.
C8_UnregisterUnknownIsNoOp ==
    [][/\ \A o \in Objects :
            (o \notin Range(elements) /\ remove(o)) => IndexUnchanged({o})
       /\ \A c \in Containers :
            (c \notin Range(containers) /\ removeContainer(c))
                => IndexUnchanged(Range(children[c]))]_vars

\* o is a member of the bucket of every cell of the range b
InBucketsOf(h, o, b) ==
    \A i \in 1..Len(RangeKeys(b)) :
        RangeKeys(b)[i] \in DOMAIN h /\ o \in Range(h[RangeKeys(b)[i]])

\* C9: addContainer(c) indexes every current child of c at once; while c is
\* registered a child-added notification puts the child into the buckets of
\* its cell range and a child-removed notification takes the child out of
\* every bucket, with no refresh.  (The last part is stated for the children
\* that are not also registered through add().)
C9_ContainerNotifications ==
    [][\A c \in Containers :
        /\ (\E s \in BOOLEAN : addContainer(c, s))
            => \A o \in Range(children[c]) : InBucketsOf(hash', o, CurrentBounds(o))
        /\ \A o \in Objects :
            /\ (c \in Range(containers) /\ addChild(c, o))
                => InBucketsOf(hash', o, CurrentBounds(o))
            /\ (c \in Range(containers) /\ o \notin Range(elements)
                    /\ removeChild(c, o))
                => o \notin BucketMembers(hash')]_vars

\* C10: after removeContainer(c) of a registered container, c is not in
\* this.containers and the index is unsubscribed from c: a later child-added
\* or child-removed notification from c changes no bucket and no object's
\* spatial state, also of an object registered individually in the meantime.
\* (The purge of c's current children, which the claim also states, follows
\* removeFromHash and is left to C7 and C9.)
C10_ContainerUnregistration ==
    [][\A c \in Containers :
        /\ (c \in Range(containers) /\ removeContainer(c))
            => c \notin Range(containers')
        /\ \A o \in Objects :
            (c \notin Range(containers) /\ (addChild(c, o) \/ removeChild(c, o)))
                => (hash' = hash /\ SpatialOf(objects') = SpatialOf(objects))]_vars

\* the options set a cell dimension (size, xSize or ySize) that is not positive
NonPositive(options) ==
    \E f \in {"size", "xSize", "ySize"} \cap DOMAIN options : options[f] <= 0

\* C11: construction with a zero or negative size, xSize or ySize is rejected
\* and yields no index, so every index has positive cell dimensions;
\* construction with no options yields 1000 x 1000 cells with simpleTest and
\* dirtyTest on.
C11_ConstructorRejectsNonPositive ==
    /\ xSize > 0 /\ ySize > 0
    /\ history.call.op = "constructor" =>
            /\ ~NonPositive(ConstructorOptions[history.call.options])
            /\ history.call.options = NoOptions =>
                    /\ xSize = 1000 /\ ySize = 1000
                    /\ simpleTest /\ dirtyTest

\* the cells of AABB's range whose bucket in h holds at least one object
NonEmptyCells(h, AABB) ==
    { k \in Range(RangeKeys(getBounds(AABB))) \cap DOMAIN h : h[k] # << >> }

\* C12: the number cull(R) stores in lastBuckets (and returns) is the number
\* of cells of R's range whose bucket is non-empty; with no object
\* registered it is 0 and no object the index knows is visible.
C12_BucketCount ==
    [][\A r \in Rects, skip \in BOOLEAN :
        (Cull(r, skip) /\ ~history'.refreshed) =>
            /\ lastBuckets' = Cardinality(NonEmptyCells(hash', r))
            /\ Tracked' = {} =>
                    /\ lastBuckets' = 0
                    /\ VisibleSet(hash', objects', Tracked') = {}]_vars

\* the bucket members of the cells of AABB's range that match: all of them,
\* or with simple those whose cached AABB intersects AABB
Matched(h, obs, AABB, simple) ==
    { o \in CellMembers(h, AABB) : simple => Intersects(obs[o].AABB, AABB) }

\* the step is a call of op with the rectangle r and the flag simple
IsCall(op, r, simple) ==
    /\ history'.call.op = op
    /\ history'.call.rect = r
    /\ history'.call.simple = simple

\* C13: query(rect, simpleTest) returns the matched objects, the very list a
\* cull pass collects for rect, and changes no object's visible flag, dirty
\* flag or spatial state and no bucket.
C13_QueryReadOnly ==
    [][\A r \in Rects, s \in BOOLEAN :
        (IsCall("query", r, s) /\ Query(r, s)) =>
            /\ Range(history'.call.results) = Matched(hash, objects, r, s)
            /\ history'.call.results =
                    queryCallbackAll(hash, invisible(objects), r, s).results
            /\ objects' = objects
            /\ hash' = hash]_vars

\* a query with the bounds check has returned one of two bucket members of
\* the cells it visited, and a bucket count
C13_Witness ==
    /\ history.call.op = "query"
    /\ history.call.simple
    /\ Len(history.call.results) > 0
    /\ Range(history.call.results) # CellMembers(hash, history.call.rect)
    /\ lastBuckets > 0

\* C14: queryCallback(rect, callback, true) invokes callback only on bucket
\* members whose cached AABB intersects rect, the objects query(rect, true)
\* returns.
C14_QueryCallbackMatchedOnly ==
    [][\A r \in Rects, cb \in Callbacks :
        (IsCall("queryCallback", r, TRUE) /\ history'.call.callback = cb
            /\ QueryCallback(r, cb, TRUE)) =>
            /\ \A o \in Range(history'.call.calls) :
                    Intersects(objects[o].AABB, r)
            /\ Range(history'.call.calls)
                    \subseteq Range(query(hash, objects, r, TRUE).results)]_vars

\* the objects of list that match rect (all of them without the bounds check)
RECURSIVE Candidates(_, _, _, _, _)
Candidates(list, obs, r, simple, i) ==
    IF i > Len(list) THEN << >>
    ELSE (IF simple => Intersects(obs[list[i]].AABB, r)
          THEN << list[i] >> ELSE << >>)
         \o Candidates(list, obs, r, simple, i + 1)

\* C15: queryCallback returns true at the first invocation of callback that
\* returns true and invokes nothing after it; it returns false only after
\* callback was invoked on every candidate, in traversal order, and returned
\* false each time.
C15_QueryCallbackShortCircuit ==
    [][\A r \in Rects, cb \in Callbacks, s \in BOOLEAN :
        (IsCall("queryCallback", r, s) /\ history'.call.callback = cb
            /\ QueryCallback(r, cb, s)) =>
            LET calls == history'.call.calls
                n == Len(calls)
            IN  /\ history'.call.found =>
                        /\ n > 0
                        /\ calls[n] \in cb
                        /\ \A i \in 1..(n - 1) : calls[i] \notin cb
                /\ ~history'.call.found =>
                        /\ \A i \in 1..n : calls[i] \notin cb
                        /\ Candidates(calls, objects, r, s, 1) =
                                query(hash, objects, r, s).results]_vars

\* queryCallback has returned true after fewer invocations than the
\* traversal has candidates
C15_Witness ==
    /\ history.call.op = "queryCallback"
    /\ history.call.found
    /\ Len(history.call.calls) <
            Len(query(hash, objects, history.call.rect, history.call.simple).results)

\* the objects the callback of the recorded cull pass was invoked on
CalledOn(call) == { call.calls[i].object : i \in 1..Len(call.calls) }

\* C16: in a cull pass with a callback, the callback is invoked on every
\* object about to be marked visible, before the flag is set: at each
\* invocation the object's visible flag is false, and after the pass every
\* object the callback was invoked on is visible.
C16_CallbackBeforeVisible ==
    [][\A r \in Rects, skip \in BOOLEAN :
        ( /\ history'.call.op = "cull"
          /\ history'.call.rect = r
          /\ history'.call.skipUpdate = skip
          /\ cullWithCallback(r, skip) ) =>
            /\ \A i \in 1..Len(history'.call.calls) :
                    /\ ~history'.call.calls[i].visible
                    /\ objects'[history'.call.calls[i].object].visible
            /\ \A o \in Tracked' :
                    objects'[o].visible => o \in CalledOn(history'.call)]_vars

\* the operations that are diagnostics helpers
DiagnosticOps ==
    { "getBuckets", "getNumberOfBuckets", "getAverageSize", "getLargest",
      "getWorldBounds", "getSparseness", "getSparsenessOfWorld", "stats" }

\* C17: getBuckets, getNumberOfBuckets, getAverageSize, getLargest,
\* getWorldBounds, getSparseness and stats leave the bucket map, the two
\* tracked lists, every object's spatial state and flags, and lastBuckets
\* unchanged.
C17_DiagnosticsReadOnly ==
    [][history'.call.op \in DiagnosticOps =>
        /\ hash' = hash
        /\ elements' = elements
        /\ containers' = containers
        /\ objects' = objects
        /\ lastBuckets' = lastBuckets]_vars

\* getSparseness has returned for a rectangle, after a cull pass counted
\* buckets, in an index that holds an object in several buckets
C17_Witness ==
    /\ history.call.op = "getSparseness"
    /\ history.call.value.den > 0
    /\ lastBuckets > 0
    /\ \E o \in Tracked : Len(objects[o].spatial.hashes) > 1

\* updateObjects leaves o alone: its spatial state, cached AABB, dirty flag
\* and bucket memberships
NotReindexed(o) ==
    /\ objects'[o].spatial = objects[o].spatial
    /\ objects'[o].AABB = objects[o].AABB
    /\ objects'[o].dirty = objects[o].dirty
    /\ \A k \in DOMAIN hash' :
            Count(hash'[k], o) = IF k \in DOMAIN hash THEN Count(hash[k], o) ELSE 0

\* the step is updateObjects and o is a child of the registered static
\* container c
RefreshOfStaticChild(c, o) ==
    /\ history'.refreshed
    /\ c \in Range(containers)
    /\ cull[c].def /\ cull[c].static
    /\ o \in Range(children[c])
    /\ refresh

\* C18: no updateObjects, with dirtyTest on or off, re-indexes a child of a
\* container registered with addContainer(c, true) or clears its dirty flag.
C18_StaticContainers ==
    [][\A c \in Containers, o \in Objects :
        RefreshOfStaticChild(c, o) => NotReindexed(o)]_vars

\* C18 as the code has it: the children of a static container that are not
\* also registered through add() are left alone by updateObjects.
C18_StaticContainersAmended ==
    [][\A c \in Containers, o \in Objects :
        (o \notin Range(elements) /\ RefreshOfStaticChild(c, o))
            => NotReindexed(o)]_vars

\* updateObjects has just run over a registered static container with a child
\* that is not in this.elements and whose cell range is no longer the cached
\* one
C18_Witness ==
    /\ history.refreshed
    /\ \E c \in Range(containers), o \in Objects :
            /\ IsStatic(c)
            /\ o \in Range(children[c])
            /\ o \notin Range(elements)
            /\ objects[o].spatial.cached
            /\ objects[o].spatial.hashes # << >>
            /\ CurrentBounds(o) # CachedBounds(o)

\* the objects updateObjects walks over: this.elements and the children of
\* the registered containers that are not static
Refreshable ==
    Range(elements) \cup
    { o \in Objects : \E c \in Range(containers) :
            ~IsStatic(c) /\ o \in Range(children[c]) }

\* C19: with dirtyTest on, updateObjects re-indexes exactly the objects of
\* this.elements and the children of non-static containers whose dirty flag
\* is set, and clears their flag; an object whose dirty flag is not set keeps
\* its bucket memberships, spatial state and cached AABB whatever its
\* transform.
C19_DirtyTestRefresh ==
    [][(history'.refreshed /\ dirtyTest /\ refresh) =>
        \A o \in Objects :
            /\ (o \in Refreshable /\ objects[o].dirty) =>
                    /\ ~objects'[o].dirty
                    /\ objects'[o].AABB = ComputeAABB(objects[o])
                    /\ CachedBounds(o)' = CurrentBounds(o)
            /\ (o \notin Refreshable \/ ~objects[o].dirty) => NotReindexed(o)]_vars

\* a dirty-test updateObjects has just run and left alone a tracked object
\* that moved to another cell range without being marked dirty
C19_Witness ==
    /\ history.refreshed
    /\ dirtyTest
    /\ \E o \in Refreshable :
            /\ ~objects[o].dirty
            /\ objects[o].spatial.cached
            /\ objects[o].spatial.hashes # << >>
            /\ CurrentBounds(o) # CachedBounds(o)

\* the cell range of o's current transform is the one its spatial state caches
OnCheapPath(o) ==
    /\ objects[o].spatial.cached
    /\ CurrentBounds(o) = CachedBounds(o)

\* C20: updateObject on an object whose newly computed cell range equals the
\* cached one leaves its key list, its cached range and its bucket
\* memberships as they were, and when that is so for every object that
\* updateObjects walks, no bucket changes: buckets are rewritten only when
\* xStart, yStart, xEnd or yEnd differs from the cached value.
C20_CheapPath ==
    [][(history'.refreshed /\ refresh) =>
        /\ \A o \in Objects :
                OnCheapPath(o) =>
                    /\ objects'[o].spatial = objects[o].spatial
                    /\ \A k \in DOMAIN hash' :
                            Count(hash'[k], o) =
                                IF k \in DOMAIN hash THEN Count(hash[k], o) ELSE 0
        /\ (\A o \in Refreshable : OnCheapPath(o)) => hash' = hash]_vars

\* a full scan has just recomputed the AABB of a tracked object that moved
\* inside its cell, and its one bucket and cached range are those of before
C20_Witness ==
    /\ history.refreshed
    /\ ~dirtyTest
    /\ \E o \in Range(elements) :
            /\ objects[o].x = 2
            /\ objects[o].AABB.def /\ objects[o].AABB.x = 2
            /\ objects[o].spatial.hashes = << Key(0, 0) >>
            /\ Count(hash[Key(0, 0)], o) = 1
            /\ OnCheapPath(o)

\* box and R share an edge or a corner and nothing else
Touches(box, R) ==
    /\ box.x + box.width >= R.x /\ box.x <= R.x + R.width
    /\ box.y + box.height >= R.y /\ box.y <= R.y + R.height
    /\ \/ box.x + box.width = R.x \/ box.x = R.x + R.width
       \/ box.y + box.height = R.y \/ box.y = R.y + R.height

\* the members of the buckets of r's cells whose cached AABB touches r
Touching(h, obs, r) == { o \in CellMembers(h, r) : Touches(obs[o].AABB, r) }

\* C21: with simpleTest on, an object whose cached AABB only touches the
\* query rectangle on a shared edge is in the result of query and is marked
\* visible by cull.
C21_BoundaryInclusion ==
    [][\A r \in EdgeRects :
        /\ (IsCall("query", r, TRUE) /\ Query(r, TRUE)) =>
                Touching(hash, objects, r) \subseteq Range(history'.call.results)
        /\ (history'.call.op = "cullNoCallback" /\ history'.call.rect = r
                /\ simpleTest /\ Cull(r, FALSE)) =>
                \A o \in Touching(hash', objects', r) : objects'[o].visible]_vars

\* C21 as the code has it: with simpleTest on, an object whose cached AABB
\* only touches the query rectangle on a shared edge is not in the result of
\* query, and cull leaves it invisible when it is tracked.
C21_BoundaryExclusion ==
    [][\A r \in EdgeRects :
        /\ (IsCall("query", r, TRUE) /\ Query(r, TRUE)) =>
                Touching(hash, objects, r) \cap Range(history'.call.results) = {}
        /\ (history'.call.op = "cullNoCallback" /\ history'.call.rect = r
                /\ simpleTest /\ Cull(r, FALSE)) =>
                \A o \in Touching(hash', objects', r) \cap Tracked' :
                    ~objects'[o].visible]_vars

\* a cull pass with the bounds check has just run over a rectangle that a
\* tracked bucket member of its cells only touches
C21_Witness ==
    /\ history.call.op = "cullNoCallback"
    /\ simpleTest
    /\ Touching(hash, objects, history.call.rect) \cap Tracked # {}

\* the places <<y, x, i>> a query over AABB reads: entry i of the bucket of
\* cell (x, y) of the range, when it passes the test the call asks for
Places(h, obs, AABB, simple) ==
    LET b == getBounds(AABB)
    IN  UNION { UNION { { << y, x, i >> : i \in
                            { j \in 1..(IF Key(x, y) \in DOMAIN h
                                         THEN Len(h[Key(x, y)]) ELSE 0) :
                                simple => Intersects(obs[h[Key(x, y)][j]].AABB, AABB) } } :
                        x \in b.xStart..b.xEnd } :
                y \in b.yStart..b.yEnd }

\* place p is read before place q: an earlier row, or the same row and an
\* earlier column, or the same cell and an earlier entry of its bucket
ReadBefore(p, q) ==
    \/ p[1] < q[1]
    \/ p[1] = q[1] /\ p[2] < q[2]
    \/ p[1] = q[1] /\ p[2] = q[2] /\ p[3] < q[3]

\* C22: the sequence query(rect, simpleTest) returns has one entry for each
\* bucket entry of the cells of rect's range that passes the test, in the
\* order rows first, then columns, then position in the bucket; an object that
\* is in k cells of the range is returned k times.
C22_ResultOrder ==
    [][\A r \in WideRects, s \in BOOLEAN :
        (IsCall("query", r, s) /\ Query(r, s)) =>
            LET P == Places(hash, objects, r, s)
                res == history'.call.results
            IN  /\ Len(res) = Cardinality(P)
                /\ \A p \in P :
                        res[Cardinality({ q \in P : ReadBefore(q, p) }) + 1]
                            = hash[Key(p[2], p[1])][p[3]]
                /\ \A o \in Objects :
                        Count(res, o) = Cardinality({ p \in P :
                                            hash[Key(p[2], p[1])][p[3]] = o })]_vars

\* a query returned an object once for each of the four cells it occupies,
\* after an object of an earlier cell and before one of a later row
C22_Witness ==
    /\ history.call.op = "query"
    /\ Len(history.call.results) >= 5
    /\ \E o \in Objects : Count(history.call.results, o) = 4
    /\ \E i \in 1..(Len(history.call.results) - 1) :
            history.call.results[i] # history.call.results[i + 1]

\* C23: getWorldBounds returns the least and the greatest x and y cell
\* coordinate over the buckets of the map, wherever the objects are placed,
\* left of and above the origin included.
C23_WorldBounds ==
    (history.call.op = "getWorldBounds" /\ DOMAIN hash # {}) =>
        LET xs == { k[1] : k \in DOMAIN hash }
            ys == { k[2] : k \in DOMAIN hash }
            b == history.call.value
        IN  /\ b.xStart \in xs /\ \A x \in xs : b.xStart <= x
            /\ b.yStart \in ys /\ \A y \in ys : b.yStart <= y
            /\ b.xEnd \in xs /\ \A x \in xs : x <= b.xEnd
            /\ b.yEnd \in ys /\ \A y \in ys : y <= b.yEnd

\* the objects a cull pass over r hands to its callback, in order
Handed(r, skip) ==
    LET st == IF skip THEN State ELSE updateObjects(State)
        c == queryCallbackAll(st.hash, invisible(st.objects), r, simpleTest).calls
    IN  [i \in 1..Len(c) |-> c[i].object]

\* C24: when the callback fails during a cull pass, the caller of cull
\* receives the callback's error, and the pass has stopped there: no object
\* was made visible by it, every tracked object is left invisible, and the
\* last-query bucket count keeps the value it had before the pass.
C24_FailingCallback ==
    [][\A r \in Rects, skip \in BOOLEAN, n \in FailAt :
        ( /\ history'.call.op = "cullFails"
          /\ history'.call.rect = r
          /\ history'.call.skipUpdate = skip
          /\ history'.call.at = n
          /\ cullCallbackFails(r, skip, n) ) =>
            /\ history'.call.thrown = [error |-> Handed(r, skip)[n]]
            /\ \A o \in Objects : objects'[o].visible => objects[o].visible
            /\ \A o \in Tracked' : ~objects'[o].visible
            /\ lastBuckets' = lastBuckets]_vars

\* a pass failed on a tracked object that had been visible, and left a bucket
\* count that a completed pass would have replaced
C24_Witness ==
    /\ history.call.op = "cullFails"
    /\ history.call.thrown.error \in Tracked
    /\ lastBuckets # queryCallbackAll(hash, objects, history.call.rect,
                                      simpleTest).buckets
\* C25: every tracked object that has a cached AABB of non-negative size is a
\* member of the bucket of every cell of its cached cell range, and the key
\* list of its spatial state is exactly the keys of that range: a tracked
\* object is never missing from the index.
C25_IndexCompleteness ==
    \A o \in Tracked :
        (objects[o].AABB.def /\ objects[o].AABB.width >= 0
                /\ objects[o].AABB.height >= 0) =>
            /\ objects[o].spatial.def /\ objects[o].spatial.cached
            /\ objects[o].spatial.hashes = RangeKeys(CachedBounds(o))
            /\ InBucketsOf(hash, o, CachedBounds(o))
\* C26: bucket keys are never deleted: at every step the keys of the hash map
\* before the step are keys after it, a bucket that is emptied included, so
\* the number getNumberOfBuckets() returns never decreases.
C26_KeysNeverDeleted ==
    [][/\ DOMAIN hash \subseteq DOMAIN hash'
       /\ getNumberOfBuckets(hash') >= getNumberOfBuckets(hash)]_vars

\* a bucket that insert created has been emptied and its key is still there
C26_Witness ==
    /\ \E k \in DOMAIN hash : hash[k] = << >>
    /\ getNumberOfBuckets(hash) > Cardinality({ k \in DOMAIN hash : hash[k] # << >> })
    /\ BucketMembers(hash) # {}
====
